---- MODULE Spec2Model ----
(***************************************************************************)
(* Model of pyrCRT.curveFitting (src/src/pyrCRT/curveFitting.py).          *)
(*                                                                         *)
(* Every function of the module is a pure function of its arguments and    *)
(* of the behaviour of the two SciPy routines it calls (curve_fit and      *)
(* find_peaks).  Each function is an operator that returns an outcome:     *)
(* either a returned value or a raised exception.  The behaviour of the    *)
(* solver on the data at hand is an input: a function from the fit that    *)
(* is requested (slice length, initial guess) to what curve_fit does.      *)
(* One action per public function applies it to inputs drawn from bounded  *)
(* sets and records the outcome.                                           *)
(***************************************************************************)
EXTENDS Integers, Sequences, FiniteSets, TLC

VARIABLES op, args, solver, outcome

vars == <<op, args, solver, outcome>>

(***************************************************************************)
(* Bounds of the model.                                                    *)
(***************************************************************************)
\* len(x) == len(y)
NumSamples == 5
\* longest candidate list handed to fitRCRT
MaxList == 3
\* largest candidate index handed to fitRCRT directly
MaxIdx == 3
\* largest magnitude of the linear polynomial coefficient
MaxCoef == 4
\* largest numerator magnitude of the numbers handed to rCRTFromParameters
MaxNum == 2

(***************************************************************************)
(* Python values.                                                          *)
(***************************************************************************)
\* Optional[T]: None is the empty tuple, a value v is <<v>>.
NoneV == <<>>

Some(v) == <<v>>

\* An outcome of a call: a returned value ...
Return(v) == [kind |-> "return", value |-> v]

\* ... or a raised exception of class exc, with its message and its
\* __cause__ (the empty tuple, or <<the outcome it was raised from>>).
Raise(exc, msg, cause) == [kind |-> "raise", exc |-> exc, msg |-> msg, cause |-> cause]

\* A message without interpolated fields.  A message built by an f-string is
\* a record with the text and one field per interpolated expression.
Msg(text) == [text |-> text]

\* np.ndarray and the built-in types the module tests with isinstance.
Arr(s) == [type |-> "ndarray", val |-> s]

PyList(s) == [type |-> "list", val |-> s]

PyInt(n) == [type |-> "int", val |-> n]

NpInt(n) == [type |-> "np.int64", val |-> n]

PyFloat(n) == [type |-> "float", val |-> n]

PyNone == [type |-> "NoneType", val |-> 0]

Returned(o) == o.kind = "return"

Raised(o, exc) == o.kind = "raise" /\ o.exc = exc

Min(a, b) == IF a <= b THEN a ELSE b

Abs(n) == IF n < 0 THEN -n ELSE n

RECURSIVE Pow(_, _)
Pow(b, e) == IF e = 0 THEN 1 ELSE b * Pow(b, e - 1)

Range(s) == {s[i] : i \in 1..Len(s)}

(***************************************************************************)
(* Floating-point numbers (np.float_), as far as the module's arithmetic   *)
(* needs them: a rational n/d (d > 0), an infinity (sign in n) or a NaN.   *)
(***************************************************************************)
Fin(n, d) == [cls |-> "fin", n |-> n, d |-> d]

Inf(s) == [cls |-> "inf", n |-> s, d |-> 1]

NaN == [cls |-> "nan", n |-> 0, d |-> 1]

Sign(n) == IF n < 0 THEN -1 ELSE IF n > 0 THEN 1 ELSE 0

IsZero(f) == f.cls = "fin" /\ f.n = 0

FEq(f, g) ==
    \/ f.cls = "fin" /\ g.cls = "fin" /\ f.n * g.d = g.n * f.d
    \/ f.cls = "inf" /\ g.cls = "inf" /\ f.n = g.n

FNonNeg(f) == f.cls # "nan" /\ f.n >= 0

FAbs(f) == [f EXCEPT !.n = Abs(f.n)]

FMul(f, g) ==
    IF f.cls = "nan" \/ g.cls = "nan" THEN NaN
    ELSE IF f.cls = "inf" \/ g.cls = "inf"
         THEN IF IsZero(f) \/ IsZero(g) THEN NaN ELSE Inf(Sign(f.n) * Sign(g.n))
         ELSE Fin(f.n * g.n, f.d * g.d)

\* Python's filter when the module does not set one: warnings are shown, not raised
FilterDefault == "default"

\* The module's warning filter: filterwarnings("error") turns every warning,
\* of any category, into an exception of the warning's class.
WarningsFilter == "error"

\* warnings.warn(category, text) under the module's filter: the outcome when
\* the computation that warned would otherwise have produced value v.
Warn(category, text, v) ==
    IF WarningsFilter = "error" THEN Raise(category, Msg(text), <<>>) ELSE Return(v)

\* the quotient of two finite numbers, g # 0
Quotient(f, g) == Fin(f.n * g.d * Sign(g.n), f.d * Abs(g.n))

\* f / g on Python floats
PyDivide(f, g) ==
    IF IsZero(g) THEN Raise("ZeroDivisionError", Msg("float division by zero"), <<>>)
    ELSE Return(Quotient(f, g))

\* f / g on NumPy scalars: dividing by zero is not a ZeroDivisionError but a
\* RuntimeWarning and an infinite or NaN quotient.
NpDivide(f, g) ==
    IF f.cls = "nan" \/ g.cls = "nan" THEN Return(NaN)
    ELSE IF IsZero(g)
         THEN IF IsZero(f)
              THEN Warn("RuntimeWarning", "invalid value encountered", NaN)
              ELSE Warn("RuntimeWarning", "divide by zero encountered",
                        Inf(Sign(f.n)))
         ELSE IF g.cls = "inf"
              THEN IF f.cls = "inf"
                   THEN Warn("RuntimeWarning", "invalid value encountered", NaN)
                   ELSE Return(Fin(0, 1))
              ELSE IF f.cls = "inf" THEN Return(Inf(f.n * Sign(g.n)))
                   ELSE Return(Quotient(f, g))

\* The exact square roots the model's variances have.
Root(n) == CHOOSE r \in 0..n : r * r = n

(***************************************************************************)
(* covToStdDev: np.sqrt(np.diag(cov)).  The covariance matrix is           *)
(* represented by its diagonal.  np.sqrt of a negative entry is NaN and    *)
(* warns RuntimeWarning("invalid value encountered in sqrt").              *)
(***************************************************************************)
SqrtElem(f) ==
    IF f.cls = "fin" /\ f.n >= 0 THEN Fin(Root(f.n), Root(f.d))
    ELSE IF f.cls = "inf" /\ f.n > 0 THEN f
    ELSE NaN

covToStdDev(cov) ==
    LET roots == Arr([i \in 1..Len(cov) |-> SqrtElem(cov[i])])
    IN  IF \E i \in 1..Len(cov) : cov[i].cls # "nan" /\ cov[i].n < 0
        THEN Warn("RuntimeWarning", "invalid value encountered in sqrt", roots)
        ELSE Return(roots)

(***************************************************************************)
(* scipy.optimize.curve_fit as the module sees it.  What the solver does   *)
(* on given data and initial guess is a record sol:                        *)
(*   conv     FALSE: RuntimeError("Optimal parameters not found")          *)
(*   warning  "none", or the category of a warning emitted during the      *)
(*            fit: OptimizeWarning (the covariance could not be            *)
(*            estimated; SciPy then fills it with inf) or RuntimeWarning   *)
(*            (NumPy's floating-point warnings, e.g. overflow in exp)      *)
(*   params, cov   what it returns if it returns                           *)
(***************************************************************************)
SolNoConv == [conv |-> FALSE, warning |-> "none", params |-> Arr(<<>>), cov |-> <<>>]

SolOk(p, c, w) == [conv |-> TRUE, warning |-> w, params |-> p, cov |-> c]

curve_fit(sol) ==
    IF ~sol.conv THEN Raise("RuntimeError", Msg("Optimal parameters not found"), <<>>)
    ELSE IF sol.warning # "none"
         THEN Warn(sol.warning, "emitted by the solver", <<sol.params, sol.cov>>)
         ELSE Return(<<sol.params, sol.cov>>)

\* The initial guesses, in tenths.
DefaultExpP0 == <<10, -3, 0>>

DefaultPolyP0 == <<0, 0, 0, 0, 0, 0, 0>>

\* except (RuntimeError, OptimizeWarning) as err
FitExceptClause == {"RuntimeError", "OptimizeWarning"}

\* The body of the try block of fitExponential and fitPolynomial.
FitTry(sol) ==
    LET r == curve_fit(sol)
    IN  IF ~Returned(r) THEN r
        ELSE LET s == covToStdDev(r.value[2])
             IN  IF ~Returned(s) THEN s
                 ELSE Return(<<r.value[1], s.value>>)

fitExponential(p0opt, sol) ==
    LET p0 == IF p0opt = NoneV THEN DefaultExpP0 ELSE p0opt[1]
        r  == FitTry(sol)
    IN  IF r.kind = "raise" /\ r.exc \in FitExceptClause
        THEN Raise("RuntimeError",
                   [text |-> "Exponential fit failed with p0={p0}.", p0 |-> p0],
                   <<r>>)
        ELSE r

fitPolynomial(p0opt, sol) ==
    LET p0 == IF p0opt = NoneV THEN DefaultPolyP0 ELSE p0opt[1]
        r  == FitTry(sol)
    IN  IF r.kind = "raise" /\ r.exc \in FitExceptClause
        THEN Raise("RuntimeError",
                   [text |-> "Polynomial fit failed with p0={p0}.", p0 |-> p0],
                   <<r>>)
        ELSE r

(***************************************************************************)
(* The two curve models, at one abscissa xi (an integer).  The decay rate  *)
(* b of the exponential is h * ln 2 for an integer h <= 0, so that         *)
(* exp(b * xi) = 2^(h * xi) is rational; every value is scaled by Scale,   *)
(* which makes it an integer and changes neither the order of the values   *)
(* nor where they are equal.                                               *)
(***************************************************************************)
Scale == Pow(2, 2 * NumSamples)

\* a * np.exp(b * x) + c, params = <<a, h, c>>
exponential(xi, a, h, c) == a * Pow(2, 2 * NumSamples + h * xi) + c * Scale

\* np.polynomial.Polynomial(list(coefs))(x): coefs[1] + coefs[2]*x + ...
RECURSIVE PolySum(_, _, _)
PolySum(xi, coefs, i) ==
    IF i > Len(coefs) THEN 0 ELSE coefs[i] * Pow(xi, i - 1) + PolySum(xi, coefs, i + 1)

polynomial(xi, coefs) == Scale * PolySum(xi, coefs, 1)

\* np.abs(exponential(x, *expParams) - polynomial(x, *polyParams)), over x
diffExpPoly(x, expParams, polyParams) ==
    [i \in 1..Len(x) |->
        Abs(exponential(x[i], expParams[1], expParams[2], expParams[3])
            - polynomial(x[i], polyParams))]

(***************************************************************************)
(* scipy.signal.find_peaks(d)[0] with no condition given: the local maxima *)
(* of d by comparison of neighbouring samples.  Indices are Python's       *)
(* (0-based): At(d, i) is d[i].  A sample, or a flat run of equal samples, *)
(* is a peak if the sample before it and the sample after it are both      *)
(* lower; of a flat run the middle index (rounded down) is reported.  The  *)
(* first and the last sample are never peaks.                              *)
(***************************************************************************)
At(d, i) == d[i + 1]

RECURSIVE PlateauEnd(_, _, _)
\* while i_ahead < i_max and x[i_ahead] == x[i]: i_ahead += 1
PlateauEnd(d, i, ahead) ==
    IF ahead < Len(d) - 1 /\ At(d, ahead) = At(d, i)
    THEN PlateauEnd(d, i, ahead + 1)
    ELSE ahead

RECURSIVE LocalMaxima(_, _)
LocalMaxima(d, i) ==
    IF i >= Len(d) - 1 THEN <<>>
    ELSE IF At(d, i - 1) < At(d, i)
         THEN LET ahead == PlateauEnd(d, i, i + 1)
              IN  IF At(d, ahead) < At(d, i)
                  THEN <<NpInt((i + ahead - 1) \div 2)>> \o LocalMaxima(d, ahead + 1)
                  ELSE LocalMaxima(d, i + 1)
         ELSE LocalMaxima(d, i + 1)

find_peaks(d) == LocalMaxima(d, 1)

\* int(x) for an integer x of either kind
ToInt(v) == PyInt(v.val)

\* the insertion of a sort without reverse=True
InsertAsc(sorted, e, d) ==
    LET k == Cardinality({j \in 1..Len(sorted) : At(d, sorted[j].val) <= At(d, e.val)})
    IN  SubSeq(sorted, 1, k) \o <<e>> \o SubSeq(sorted, k + 1, Len(sorted))

\* sorted(seq, key=lambda x: d[x], reverse=True).  Python's sort is stable,
\* also in reverse: elements with equal keys keep their order.
InsertDesc(sorted, e, d) ==
    LET k == Cardinality({j \in 1..Len(sorted) : At(d, sorted[j].val) >= At(d, e.val)})
    IN  SubSeq(sorted, 1, k) \o <<e>> \o SubSeq(sorted, k + 1, Len(sorted))

RECURSIVE SortedDesc(_, _)
SortedDesc(seq, d) ==
    IF seq = <<>> THEN <<>>
    ELSE InsertDesc(SortedDesc(SubSeq(seq, 1, Len(seq) - 1), d), seq[Len(seq)], d)

(***************************************************************************)
(* A call that fits returns its outcome together with the log of the       *)
(* curve_fit invocations it made, in order: res is what the caller sees,   *)
(* fits is the instrumentation.                                            *)
(***************************************************************************)
Traced(o, fits) == [res |-> o, fits |-> fits]

FitCall(model, n, p0) == [model |-> model, n |-> n, p0 |-> p0]

\* len(x[:idx])
SliceLen(idx, n) == IF idx >= 0 THEN Min(idx, n) ELSE IF n + idx > 0 THEN n + idx ELSE 0

(***************************************************************************)
(* findMaxDivergencePeaks(x, *args, **kwargs).  sol is the behaviour of    *)
(* the solver on the caller's data: sol.exp and sol.poly map               *)
(* <<length of the slice fitted, initial guess>> to what curve_fit does.   *)
(***************************************************************************)
\* a call without keyword arguments
NoKwargs == [k \in {} |-> 0]

RECURSIVE findMaxDivergencePeaks(_, _, _, _)
findMaxDivergencePeaks(x, posArgs, kwargs, sol) ==
    IF "expTuple" \in DOMAIN kwargs /\ "polyTuple" \in DOMAIN kwargs
    THEN LET expParams  == kwargs.expTuple[1]
             polyParams == kwargs.polyTuple[1]
         IN  IF ~(expParams.type = "ndarray" /\ polyParams.type = "ndarray")
             THEN Traced(Raise("AssertionError", Msg(""), <<>>), <<>>)
             ELSE LET diffArray  == diffExpPoly(x, expParams.val, polyParams.val)
                      maxIndexes == find_peaks(diffArray)
                      asInts     == [j \in 1..Len(maxIndexes) |-> ToInt(maxIndexes[j])]
                  IN  Traced(Return(SortedDesc(asInts, diffArray)), <<>>)
    ELSE IF Len(posArgs) = 1 /\ posArgs[1].type = "ndarray"
    THEN LET n        == Len(x)
             expTuple == fitExponential(NoneV, sol.exp[<<n, DefaultExpP0>>])
             expLog   == <<FitCall("exponential", n, DefaultExpP0)>>
         IN  IF ~Returned(expTuple) THEN Traced(expTuple, expLog)
             ELSE LET polyTuple == fitPolynomial(NoneV, sol.poly[<<n, DefaultPolyP0>>])
                      log       == expLog \o <<FitCall("polynomial", n, DefaultPolyP0)>>
                  IN  IF ~Returned(polyTuple) THEN Traced(polyTuple, log)
                      ELSE Traced(findMaxDivergencePeaks(x, <<>>,
                                      [expTuple |-> expTuple.value,
                                       polyTuple |-> polyTuple.value], sol).res,
                                  log)
    ELSE Traced(Raise("ValueError", Msg("Usage: findMaxDivergencePeaks(...)"), <<>>), <<>>)

(***************************************************************************)
(* fitRCRT(x, y, p0=None, maxDiv=None).  y is represented by the           *)
(* behaviour sol of the solver on (x, y).                                  *)
(***************************************************************************)
\* isinstance(maxDiv, list)
IsList(maxDiv) == maxDiv.type = "list"

\* isinstance(maxDiv, (int, float))
IntOrFloat(maxDiv) == maxDiv.type \in {"int", "bool", "float"}

\* isinstance(maxDiv, int): bool is a subclass of int, np.int64 is not
IsInt(maxDiv) == maxDiv.type \in {"int", "bool"}

\* a loop that ends without a raise: the function returns None
FallThrough(maxDivList) == Return(NoneV)

\* the raise after the loop over the candidates; only the first of the two
\* adjacent string literals is an f-string, so {p0} stays as written
AllCandidatesFailed(maxDivList) ==
    Raise("RuntimeError",
          [text |-> "rCRT fit failed on all maxDivIndexes ({maxDivList}), with p0={p0}.",
           maxDivList |-> maxDivList],
          <<>>)

RECURSIVE fitRCRT(_, _, _, _)
RECURSIVE fitRCRTLoop(_, _, _, _, _)

\* for maxDivIndex in maxDivList: try: return fitRCRT(...) except RuntimeError: pass
\* and the raise after the loop
fitRCRTLoop(x, p0, maxDivList, i, sol) ==
    IF i > Len(maxDivList)
    THEN Traced(AllCandidatesFailed(maxDivList), <<>>)
    ELSE LET r == fitRCRT(x, Some(p0), maxDivList[i], sol)
         IN  IF Raised(r.res, "RuntimeError")
             THEN LET rest == fitRCRTLoop(x, p0, maxDivList, i + 1, sol)
                  IN  Traced(rest.res, r.fits \o rest.fits)
             ELSE r

fitRCRT(x, p0opt, maxDiv, sol) ==
    LET p0 == IF p0opt = NoneV THEN DefaultExpP0 ELSE p0opt[1]
    IN  IF maxDiv.type # "NoneType"
        THEN IF IsList(maxDiv)
             THEN fitRCRTLoop(x, p0, maxDiv.val, 1, sol)
             ELSE IF IsInt(maxDiv)
             THEN LET n == SliceLen(maxDiv.val, Len(x))
                      r == fitExponential(Some(p0), sol.exp[<<n, p0>>])
                      log == <<FitCall("exponential", n, p0)>>
                  IN  IF Returned(r) THEN Traced(Return(<<r.value, maxDiv>>), log)
                      ELSE IF r.exc = "RuntimeError"
                      THEN Traced(Raise("RuntimeError",
                                        [text |-> "rCRT fit failed on maxDivIndex={maxDivIndex} and p0={p0}",
                                         maxDivIndex |-> maxDiv, p0 |-> p0],
                                        <<r>>),
                                  log)
                      ELSE Traced(r, log)
             ELSE Traced(Raise("TypeError",
                               [text |-> "Invalid type of {type(maxDiv)} for maxDiv. ...",
                                type |-> maxDiv.type],
                               <<>>),
                         <<>>)
        ELSE LET found == findMaxDivergencePeaks(x, <<Arr(<<>>)>>, NoKwargs, sol)
             IN  IF ~Returned(found.res) THEN found
                 ELSE \* return fitRCRT(x, y, maxDiv=maxDiv): p0 is not passed on
                      LET r == fitRCRT(x, NoneV, PyList(found.res.value), sol)
                      IN  Traced(r.res, found.fits \o r.fits)

(***************************************************************************)
(* rCRTFromParameters(rCRTTuple).  The elements of an array are NumPy       *)
(* scalars, those of a list are Python floats.                             *)
(***************************************************************************)
Divide(container, f, g) ==
    IF container.type = "ndarray" THEN NpDivide(f, g) ELSE PyDivide(f, g)

\* rCRTParams[1], rCRTStdDev[1]: the second slot
DecaySlot == 2

\* 2 * rCRT * (inverseRCRTStdDev / inverseRCRT)
UncertaintyNoMinus(rCRT, ratio) == FMul(FMul(Fin(2, 1), rCRT), ratio)

\* -2 * rCRT * (inverseRCRTStdDev / inverseRCRT), the quotient being ratio
Uncertainty(rCRT, ratio) == FMul(FMul(Fin(-2, 1), rCRT), ratio)

rCRTFromParameters(rCRTTuple) ==
    LET rCRTParams        == rCRTTuple[1].val
        rCRTStdDev        == rCRTTuple[2].val
        inverseRCRT       == rCRTParams[DecaySlot]
        inverseRCRTStdDev == rCRTStdDev[DecaySlot]
        rCRT              == Divide(rCRTTuple[1], Fin(-1, 1), inverseRCRT)
    IN  IF ~Returned(rCRT) THEN rCRT
        ELSE LET ratio == Divide(rCRTTuple[2], inverseRCRTStdDev, inverseRCRT)
             IN  IF ~Returned(ratio) THEN ratio
                 ELSE Return(<<rCRT.value, Uncertainty(rCRT.value, ratio.value)>>)

(***************************************************************************)
(* The inputs the actions draw from.                                       *)
(***************************************************************************)
\* x: NumSamples equally spaced abscissas starting at x0
XFrom(x0) == [i \in 1..NumSamples |-> x0 + i - 1]

XArrays == {XFrom(-2), XFrom(0)}

\* a caller's initial guess other than the default, in tenths
CustomExpP0 == <<20, -10, 0>>

CustomPolyP0 == <<0, 0>>

ExpP0Options == {NoneV, Some(CustomExpP0)}

\* variances on the diagonal of a covariance matrix; one is negative
Variances == {Fin(0, 1), Fin(1, 4), Fin(4, 1), Fin(-1, 1)}

GoodCov(n) == [i \in 1..n |-> Fin(4, 1)]

NegCov(n) == [i \in 1..n |-> IF i = 2 THEN Fin(-1, 1) ELSE Fin(1, 1)]

InfCov(n) == [i \in 1..n |-> Inf(1)]

\* fitted exponentials <<a, h, c>> (b = h ln 2) and polynomials
ExpFits == {<<a, h, c>> : a \in 0..1, h \in {-1, 0}, c \in -1..1}

PolyFits ==
    {<<k0, k1, k2, k3>> : k0 \in -1..1, k1 \in -MaxCoef..MaxCoef, k2 \in -1..1, k3 \in -1..1}

\* What the solver can do on one fit of n parameters whose optimum is p.
SolsFor(p, covs) ==
    {SolNoConv}
    \cup {SolOk(Arr(p), c, "none") : c \in covs}
    \cup {SolOk(Arr(p), InfCov(Len(p)), "OptimizeWarning")}
    \cup {SolOk(Arr(p), GoodCov(Len(p)), "RuntimeWarning")}

\* the solver's behaviours offered for the restricted fits of fitRCRT
RCRTSols ==
    SolsFor(<<1, -1, 0>>, {GoodCov(3), NegCov(3)}) \cup {SolOk(Arr(<<0, -1, 1>>), GoodCov(3), "none")}

\* ... and for the two fits on the full series
FullExpSols ==
    SolsFor(<<0, -1, -1>>, {GoodCov(3), NegCov(3)}) \cup {SolOk(Arr(<<1, -1, 0>>), GoodCov(3), "none")}

FullPolyFits ==
    {<<-1, -4, 0, 1, 0, 0, 0>>, <<0, 4, 0, -1, 0, 0, 0>>,
     <<-1, -4, -1, -1, 0, 0, 0>>, <<1, -1, 0, 0, 0, 0, 0>>}

FullPolySols ==
    SolsFor(<<-1, -4, 0, 1, 0, 0, 0>>, {GoodCov(7), NegCov(7)})
    \cup {SolOk(Arr(p), GoodCov(7), "none") : p \in FullPolyFits}

\* candidate lists: sequences without repetition over 1..MaxIdx
CandidateLists ==
    {s \in UNION {[1..k -> 1..MaxIdx] : k \in 0..MaxList} :
        \A i, j \in 1..Len(s) : i # j => s[i] # s[j]}

AsPyInts(s) == [i \in 1..Len(s) |-> PyInt(s[i])]

Vals(pyints) == [i \in 1..Len(pyints) |-> pyints[i].val]

NoSolver == [exp |-> <<>>, poly |-> <<>>]

(***************************************************************************)
(* The actions: one call of a function of the module, made when no call    *)
(* is in progress (the module is single-threaded and keeps no state        *)
(* between calls), and the caller taking the outcome.                      *)
(***************************************************************************)
Init ==
    /\ op = "idle"
    /\ args = <<>>
    /\ solver = NoSolver
    /\ outcome = Traced(Return(<<>>), <<>>)

CallFitExponential ==
    /\ op = "idle"
    /\ \E p0opt \in ExpP0Options, p \in {<<1, -1, 0>>} :
      \E sol \in SolsFor(p, [1..3 -> Variances]) :
        /\ op' = "fitExponential"
        /\ args' = [p0 |-> p0opt]
        /\ solver' = sol
        /\ outcome' = Traced(fitExponential(p0opt, sol), <<>>)

CallFitPolynomial ==
    /\ op = "idle"
    /\ \E p0opt \in {NoneV, Some(CustomPolyP0)} :
      \E sol \in IF p0opt = NoneV
                 THEN SolsFor(<<1, -1, 0, 0, 0, 0, 0>>, {GoodCov(7), NegCov(7)})
                 ELSE SolsFor(<<1, -1>>, [1..2 -> Variances]) :
        /\ op' = "fitPolynomial"
        /\ args' = [p0 |-> p0opt]
        /\ solver' = sol
        /\ outcome' = Traced(fitPolynomial(p0opt, sol), <<>>)

\* findMaxDivergencePeaks(x, expTuple=..., polyTuple=...)
CallFindPeaksFitted ==
    /\ op = "idle"
    /\ \E x \in XArrays, e \in ExpFits, p \in PolyFits :
      LET kwargs == [expTuple |-> <<Arr(e), Arr(GoodCov(3))>>,
                     polyTuple |-> <<Arr(p), Arr(GoodCov(4))>>]
      IN  /\ op' = "findMaxDivergencePeaks"
          /\ args' = [x |-> x, posArgs |-> <<>>, kwargs |-> kwargs]
          /\ solver' = NoSolver
          /\ outcome' = findMaxDivergencePeaks(x, <<>>, kwargs, NoSolver)

\* the same with parameters that are lists, and calls that fit neither usage
CallFindPeaksMisused ==
    /\ op = "idle"
    /\ \E x \in XArrays, kw \in {"lists", "none", "expOnly"} :
      LET e == <<PyList(<<1, -1, 0>>), PyList(GoodCov(3))>>
          kwargs == IF kw = "lists" THEN [expTuple |-> e, polyTuple |-> e]
                    ELSE IF kw = "expOnly" THEN [expTuple |-> e]
                    ELSE NoKwargs
      IN  /\ op' = "findMaxDivergencePeaks"
          /\ args' = [x |-> x, posArgs |-> <<>>, kwargs |-> kwargs]
          /\ solver' = NoSolver
          /\ outcome' = findMaxDivergencePeaks(x, <<>>, kwargs, NoSolver)

\* fitRCRT(x, y, p0, maxDiv=[...])
CallFitRCRTList ==
    /\ op = "idle"
    /\ \E p0opt \in ExpP0Options, L \in CandidateLists :
      LET p0 == IF p0opt = NoneV THEN DefaultExpP0 ELSE p0opt[1]
      IN  \E e \in [{<<i, p0>> : i \in Range(L)} -> RCRTSols] :
            LET sol == [exp |-> e, poly |-> <<>>]
            IN  /\ op' = "fitRCRT"
                /\ args' = [x |-> XFrom(0), p0 |-> p0opt, maxDiv |-> PyList(AsPyInts(L))]
                /\ solver' = sol
                /\ outcome' = fitRCRT(XFrom(0), p0opt, PyList(AsPyInts(L)), sol)

\* fitRCRT(x, y, p0, maxDiv=idx)
CallFitRCRTIndex ==
    /\ op = "idle"
    /\ \E p0opt \in ExpP0Options, idx \in 1..MaxIdx, t \in {"int", "bool"} :
      LET p0 == IF p0opt = NoneV THEN DefaultExpP0 ELSE p0opt[1]
          maxDiv == [type |-> t, val |-> IF t = "bool" THEN 1 ELSE idx]
      IN  \E e \in [{<<maxDiv.val, p0>>} -> RCRTSols] :
            LET sol == [exp |-> e, poly |-> <<>>]
            IN  /\ op' = "fitRCRT"
                /\ args' = [x |-> XFrom(0), p0 |-> p0opt, maxDiv |-> maxDiv]
                /\ solver' = sol
                /\ outcome' = fitRCRT(XFrom(0), p0opt, maxDiv, sol)

\* fitRCRT(x, y, p0, maxDiv=<anything else>)
CallFitRCRTOther ==
    /\ op = "idle"
    /\ \E p0opt \in ExpP0Options, idx \in 1..MaxIdx, t \in {"float", "np.int64", "str", "tuple"} :
      \E e \in [{<<idx, p0>> : p0 \in {DefaultExpP0, CustomExpP0}} -> {SolOk(Arr(<<1, -1, 0>>), GoodCov(3), "none")}] :
        LET maxDiv == [type |-> t, val |-> idx]
            sol == [exp |-> e, poly |-> <<>>]
        IN  /\ op' = "fitRCRT"
            /\ args' = [x |-> XFrom(0), p0 |-> p0opt, maxDiv |-> maxDiv]
            /\ solver' = sol
            /\ outcome' = fitRCRT(XFrom(0), p0opt, maxDiv, sol)

\* the candidates the full-series fits fullExp, fullPoly lead to
Candidates(x, fullExp, fullPoly) ==
    LET e == fitExponential(NoneV, fullExp)
        p == fitPolynomial(NoneV, fullPoly)
    IN  IF Returned(e) /\ Returned(p)
        THEN Vals(findMaxDivergencePeaks(x, <<>>,
                      [expTuple |-> e.value, polyTuple |-> p.value], NoSolver).res.value)
        ELSE <<>>

\* fitRCRT(x, y, p0): maxDiv is None
CallFitRCRTAuto ==
    /\ op = "idle"
    /\ \E x \in XArrays, p0opt \in ExpP0Options, fullExp \in FullExpSols, fullPoly \in FullPolySols :
      LET p0 == IF p0opt = NoneV THEN DefaultExpP0 ELSE p0opt[1]
          n == Len(x)
          cands == Range(Candidates(x, fullExp, fullPoly))
      IN  \E e \in [{<<i, q>> : i \in cands, q \in {p0, DefaultExpP0}} -> RCRTSols] :
            LET sol == [exp  |-> [k \in DOMAIN e \cup {<<n, DefaultExpP0>>} |->
                                     IF k \in DOMAIN e THEN e[k] ELSE fullExp],
                        poly |-> [k \in {<<n, DefaultPolyP0>>} |-> fullPoly]]
            IN  /\ op' = "fitRCRT"
                /\ args' = [x |-> x, p0 |-> p0opt, maxDiv |-> PyNone]
                /\ solver' = sol
                /\ outcome' = fitRCRT(x, p0opt, PyNone, sol)

\* numbers n/d handed to rCRTFromParameters
Numbers(lo) == {Fin(n, d) : n \in lo..MaxNum, d \in 1..2}

CallRCRTFromParameters ==
    /\ op = "idle"
    /\ \E a, c, sa, sc \in {Fin(0, 1), Fin(1, 1)}, b \in Numbers(-MaxNum), sb \in Numbers(0),
          t \in {"ndarray", "list"} :
      LET rCRTTuple == <<[type |-> t, val |-> <<a, b, c>>], [type |-> t, val |-> <<sa, sb, sc>>]>>
      IN  /\ op' = "rCRTFromParameters"
          /\ args' = [rCRTTuple |-> rCRTTuple]
          /\ solver' = NoSolver
          /\ outcome' = Traced(rCRTFromParameters(rCRTTuple), <<>>)

\* the caller has the outcome; the next call starts from scratch
Finish ==
    /\ op # "idle"
    /\ op' = "idle"
    /\ args' = <<>>
    /\ solver' = NoSolver
    /\ outcome' = Traced(Return(<<>>), <<>>)

Next ==
    \/ Finish
    \/ CallFitExponential
    \/ CallFitPolynomial
    \/ CallFindPeaksFitted
    \/ CallFindPeaksMisused
    \/ CallFitRCRTList
    \/ CallFitRCRTIndex
    \/ CallFitRCRTOther
    \/ CallFitRCRTAuto
    \/ CallRCRTFromParameters

Spec == Init /\ [][Next]_vars

(***************************************************************************)
(* The properties.  What a fit is, for the statements below: it succeeds   *)
(* when the solver converges without a warning and its covariance matrix   *)
(* has a finite, non-negative diagonal; its result is then the parameters  *)
(* with the square roots of the diagonal.                                  *)
(***************************************************************************)
Degenerate(cov) == \E i \in 1..Len(cov) : cov[i].cls = "inf" \/ cov[i].n < 0

FitSucceeds(sol) == sol.conv /\ sol.warning = "none" /\ ~Degenerate(sol.cov)

FitResultOf(sol) == <<sol.params, Arr([i \in 1..Len(sol.cov) |-> SqrtElem(sol.cov[i])])>>

IsFitCall == op \in {"fitExponential", "fitPolynomial"}

\* the initial guess a fit used
GuessUsed ==
    IF args.p0 # NoneV THEN args.p0[1]
    ELSE IF op = "fitPolynomial" THEN DefaultPolyP0 ELSE DefaultExpP0

IsListCall == op = "fitRCRT" /\ args.maxDiv.type = "list"

IsAutoCall == op = "fitRCRT" /\ args.maxDiv.type = "NoneType"

\* the solver's behaviour on the i-th candidate of a list call
CandidateSol(i) == solver.exp[<<args.maxDiv.val[i].val, GuessUsed>>]

\* the candidates of a list call whose fit succeeds
Successful == {i \in 1..Len(args.maxDiv.val) : FitSucceeds(CandidateSol(i))}

\* the last candidate a list call has to attempt
LastNeeded ==
    IF Successful = {} THEN Len(args.maxDiv.val)
    ELSE CHOOSE i \in Successful : \A j \in Successful : i <= j

\* C1: called with a list of integer indices, fitRCRT attempts the exponential
\* fit on the candidates' slices one at a time in list order, absorbing each
\* candidate's fit failure, up to and including the first candidate whose fit
\* succeeds, attempts none after it, and returns that fit's result with that
\* candidate's index.
C1_FirstSuccessInListOrder ==
    IsListCall =>
        /\ outcome.fits = [i \in 1..LastNeeded |->
                              FitCall("exponential", args.maxDiv.val[i].val, GuessUsed)]
        /\ Successful # {} =>
              outcome.res = Return(<<FitResultOf(CandidateSol(LastNeeded)),
                                     args.maxDiv.val[LastNeeded]>>)

\* every candidate's exponential fit ends in the fit failure (RuntimeError)
EveryCandidateFails ==
    \A i \in 1..Len(args.maxDiv.val) :
        Raised(fitExponential(Some(GuessUsed), CandidateSol(i)), "RuntimeError")

\* C2: when the fit fails for every candidate of the list, fitRCRT raises
\* RuntimeError with a message that names the full list of attempted indices
\* and the initial guess that was used.
C2_AllFailedNamesListAndGuess ==
    (IsListCall /\ EveryCandidateFails) =>
        /\ Raised(outcome.res, "RuntimeError")
        /\ "maxDivList" \in DOMAIN outcome.res.msg
        /\ outcome.res.msg.maxDivList = args.maxDiv.val
        /\ "p0" \in DOMAIN outcome.res.msg
        /\ outcome.res.msg.p0 = GuessUsed

\* C3: fitRCRT with a maxDiv that is neither None, a list nor an integer
\* raises TypeError, never RuntimeError, and attempts no fit.
C3_UnsupportedTypeIsTypeError ==
    (op = "fitRCRT"
        /\ args.maxDiv.type \notin {"NoneType", "list", "int", "bool", "np.int64"}) =>
        /\ Raised(outcome.res, "TypeError")
        /\ outcome.fits = <<>>

C3_FloatRejected ==
    /\ op = "fitRCRT"
    /\ args.maxDiv.type = "float"
    /\ Raised(outcome.res, "TypeError")

\* what findMaxDivergencePeaks(x, y) gives on the data of an automatic call
FoundPeaks == findMaxDivergencePeaks(args.x, <<Arr(<<>>)>>, NoKwargs, solver)

\* C4: for every initial guess p0 of the caller, fitRCRT(x, y, p0) without
\* maxDiv has the outcome of fitRCRT(x, y, p0, maxDiv=L), L being the list
\* findMaxDivergencePeaks(x, y) returns.
\* (Already when every fit either succeeds or does not converge.)
C4_AutoIsListModeOnFoundPeaks ==
    (IsAutoCall
        /\ Returned(FoundPeaks.res)
        /\ \A k \in DOMAIN solver.exp : FitSucceeds(solver.exp[k]) \/ ~solver.exp[k].conv) =>
        outcome.res = fitRCRT(args.x, args.p0, PyList(FoundPeaks.res.value), solver).res

\* C5: in fitExponential and fitPolynomial a covariance matrix that is
\* singular or has a negative diagonal entry ends the call in RuntimeError
\* carrying the initial guess: no result with NaN, no other exception.
C5_DegenerateCovarianceIsFitFailure ==
    (IsFitCall /\ solver.conv /\ Degenerate(solver.cov)) =>
        /\ Raised(outcome.res, "RuntimeError")
        /\ outcome.res.msg.p0 = GuessUsed

\* C6: in fitExponential and fitPolynomial any warning emitted by the solver
\* during the fit ends the call in RuntimeError, whose message includes the
\* initial guess and whose cause is the warning; no result is returned.
C6_SolverWarningIsFitFailure ==
    (IsFitCall /\ solver.conv /\ solver.warning # "none") =>
        /\ Raised(outcome.res, "RuntimeError")
        /\ outcome.res.msg.p0 = GuessUsed
        /\ Len(outcome.res.cause) = 1
        /\ outcome.res.cause[1].exc = solver.warning

IsPeaksCallFitted ==
    /\ op = "findMaxDivergencePeaks"
    /\ DOMAIN args.kwargs = {"expTuple", "polyTuple"}
    /\ args.kwargs.expTuple[1].type = "ndarray"
    /\ args.kwargs.polyTuple[1].type = "ndarray"

\* the absolute-difference curve of a call with fitted parameters
DiffCurve == diffExpPoly(args.x, args.kwargs.expTuple[1].val, args.kwargs.polyTuple[1].val)

Interior(d) == 1..(Len(d) - 2)

\* interior indices higher than both neighbours
StrictMaxima(d) == {i \in Interior(d) : At(d, i - 1) < At(d, i) /\ At(d, i) > At(d, i + 1)}

\* the same, a flat run of equal values counting as one maximum at its
\* middle index (rounded down)
FlatMaxima(d) ==
    {(l + r) \div 2 : <<l, r>> \in
        {lr \in Interior(d) \X Interior(d) :
            /\ lr[1] <= lr[2]
            /\ At(d, lr[1] - 1) < At(d, lr[1])
            /\ \A j \in lr[1]..lr[2] : At(d, j) = At(d, lr[1])
            /\ At(d, lr[2] + 1) < At(d, lr[1])}}

NonIncreasingAlong(list, d) ==
    \A i \in 1..(Len(list) - 1) : At(d, list[i]) >= At(d, list[i + 1])

\* d strictly rises up to index m and strictly falls after it
SingleMaximumAt(d, m) ==
    /\ \A i \in 0..(m - 1) : At(d, i) < At(d, i + 1)
    /\ \A i \in m..(Len(d) - 2) : At(d, i) > At(d, i + 1)

StrictlyMonotonic(d) ==
    \/ \A i \in 0..(Len(d) - 2) : At(d, i) < At(d, i + 1)
    \/ \A i \in 0..(Len(d) - 2) : At(d, i) > At(d, i + 1)

\* the parts of C7 that do not depend on what a local maximum is
RankedPeaks(list, d) ==
    /\ Cardinality(Range(list)) = Len(list)
    /\ NonIncreasingAlong(list, d)
    /\ \A m \in Interior(d) :
          SingleMaximumAt(d, m) =>
              list = <<m>> /\ \A j \in 0..(Len(d) - 1) : At(d, j) <= At(d, m)
    /\ StrictlyMonotonic(d) => list = <<>>

DecayRate == args.rCRTTuple[1].val[2]

DecayRateStdDev == args.rCRTTuple[2].val[2]

Zero == Fin(0, 1)

\* C8: for a non-zero decay rate b of either sign and a non-negative standard
\* deviation sb, rCRTFromParameters returns rCRT = -1/b and the uncertainty
\* 2*|rCRT|*(sb/|b|), which is never negative; a, c and their standard
\* deviations do not affect the result.
C8_RCRTAndUncertainty ==
    (op = "rCRTFromParameters" /\ ~IsZero(DecayRate)) =>
        /\ Returned(outcome.res)
        /\ FEq(FMul(DecayRate, outcome.res.value[1]), Fin(-1, 1))
        /\ FEq(outcome.res.value[2],
               FMul(FMul(Fin(2, 1), FAbs(outcome.res.value[1])),
                    Fin(DecayRateStdDev.n * DecayRate.d,
                        DecayRateStdDev.d * Abs(DecayRate.n))))
        /\ FNonNeg(outcome.res.value[2])
        /\ outcome.res = rCRTFromParameters(
              <<[args.rCRTTuple[1] EXCEPT !.val = <<Zero, DecayRate, Zero>>],
                [args.rCRTTuple[2] EXCEPT !.val = <<Zero, DecayRateStdDev, Zero>>]>>)

C8_PositiveRateWithSpread ==
    /\ op = "rCRTFromParameters"
    /\ DecayRate.n > 0
    /\ DecayRateStdDev.n > 0
    /\ ~IsZero(args.rCRTTuple[1].val[1])
    /\ Returned(outcome.res)
    /\ outcome.res.value[1].n < 0
    /\ outcome.res.value[2].n > 0

\* C9: with a decay rate of 0 rCRTFromParameters fails with the division
\* failure (the division by zero raised as an exception) and returns no
\* pair, in particular no infinite or NaN value.
C9_ZeroDecayRateFails ==
    (op = "rCRTFromParameters" /\ IsZero(DecayRate)) =>
        /\ outcome.res.kind = "raise"
        /\ \/ outcome.res.exc = "ZeroDivisionError"
           \/ /\ outcome.res.exc = "RuntimeWarning"
              /\ outcome.res.msg.text = "divide by zero encountered"

C9_ZeroRateCalled ==
    /\ op = "rCRTFromParameters"
    /\ args.rCRTTuple[1].type = "ndarray"
    /\ IsZero(DecayRate)
    /\ ~Returned(outcome.res)

\* the two fits on the full series that an automatic call starts with
FullExpFit == fitExponential(NoneV, solver.exp[<<Len(args.x), DefaultExpP0>>])

FullPolyFit == fitPolynomial(NoneV, solver.poly[<<Len(args.x), DefaultPolyP0>>])

FullFits ==
    <<FitCall("exponential", Len(args.x), DefaultExpP0),
      FitCall("polynomial", Len(args.x), DefaultPolyP0)>>

FoundCandidates ==
    Candidates(args.x, solver.exp[<<Len(args.x), DefaultExpP0>>],
               solver.poly[<<Len(args.x), DefaultPolyP0>>])

\* C10: without maxDiv, fitRCRT returns a result only if findMaxDivergencePeaks
\* found a non-empty candidate list; when both full-series fits succeed and
\* no candidate is found it raises RuntimeError without any restricted fit;
\* when a full-series fit fails, that failure reaches the caller and no
\* restricted fit is attempted.
C10_AutoNeedsCandidates ==
    IsAutoCall =>
        /\ Returned(outcome.res) =>
              Returned(FullExpFit) /\ Returned(FullPolyFit) /\ FoundCandidates # <<>>
        /\ (Returned(FullExpFit) /\ Returned(FullPolyFit) /\ FoundCandidates = <<>>) =>
              Raised(outcome.res, "RuntimeError") /\ outcome.fits = FullFits
        /\ ~Returned(FullExpFit) =>
              outcome.res = FullExpFit /\ outcome.fits = SubSeq(FullFits, 1, 1)
        /\ (Returned(FullExpFit) /\ ~Returned(FullPolyFit)) =>
              outcome.res = FullPolyFit /\ outcome.fits = FullFits

C10_NoCandidateFound ==
    /\ IsAutoCall
    /\ Returned(FullExpFit)
    /\ Returned(FullPolyFit)
    /\ FoundCandidates = <<>>
    /\ Raised(outcome.res, "RuntimeError")

====
